---- MODULE Spec2Model ----
(***************************************************************************)
(* Model of backend/main.py: the /generate-item-details endpoint of the    *)
(* menu intelligence service.  One request is processed at a time (the     *)
(* handler is an async function that only makes blocking calls, so the     *)
(* event loop runs requests one after another).                            *)
(*                                                                         *)
(* Python strings that the code measures, trims, splits or concatenates    *)
(* are sequences of one-character strings.  model ids and model_used tags  *)
(* are TLA+ strings.                                                       *)
(***************************************************************************)
EXTENDS Integers, Sequences, FiniteSets, TLC

VARIABLES
    api_key,      \* OPENAI_API_KEY is configured (truthy)
    hits,         \* limiter storage: per client address, hits in the current window
    pc,           \* position of the request being processed
    req,          \* the raw request: client address, item_name, model_version
    body,         \* the validated MenuItemRequest
    prompt_item,  \* the item name substituted into MENU_GENERATION_PROMPT
    model_used,   \* local variable model_used of the handler
    iter,         \* iteration of "for _ in range(2)"
    ai_response,  \* local variable ai_response of the handler
    calls,        \* provider calls of this request: kind, model and answer
    sleeps,       \* time.sleep calls of this request
    outcome       \* what the client receives

vars == <<api_key, hits, pc, req, body, prompt_item, model_used, iter,
          ai_response, calls, sleeps, outcome>>

(***************************************************************************)
(* Bounds of the model.                                                    *)
(***************************************************************************)
MaxRawLen == 2      \* raw names: every string over Alphabet up to this length
MaxHits == 11       \* requests counted per client and window

(***************************************************************************)
(* Program constants.                                                      *)
(***************************************************************************)
MAX_NAME_LEN == 100
MIN_NAME_LEN == 2
MAX_WORDS == 30
RATE_LIMIT == 10
LOOP_ATTEMPTS == 2

Forbidden == {"<", ">", "\"", "'"}
Whitespace == {" ", "\t", "\n"}
allowed_models == {"gpt-3.5-turbo", "gpt-4"}
DEFAULT_MODEL == "gpt-3.5-turbo"

(***************************************************************************)
(* String functions, computed as Python computes them.                     *)
(***************************************************************************)
\* str.strip(): from the first to the last character that is not whitespace
Strip(s) ==
    LET kept == {i \in 1..Len(s) : s[i] \notin Whitespace} IN
    IF kept = {} THEN <<>>
    ELSE SubSeq(s, CHOOSE i \in kept : \A j \in kept : i <= j,
                   CHOOSE i \in kept : \A j \in kept : j <= i)

IsKept(c) == c \notin Forbidden

\* re.sub(r'[<>"\']', '', s)
RemoveForbidden(s) == SelectSeq(s, IsKept)

\* str.split(): the maximal runs of non-whitespace characters, in order
WordStarts(s) ==
    {i \in 1..Len(s) : s[i] \notin Whitespace /\ (i = 1 \/ s[i - 1] \in Whitespace)}
WordEnd(s, i) ==
    CHOOSE j \in i..Len(s) :
        /\ \A k \in i..j : s[k] \notin Whitespace
        /\ (j = Len(s) \/ s[j + 1] \in Whitespace)
Split(s) ==
    LET starts == WordStarts(s)
        nth(k) == CHOOSE i \in starts : Cardinality({j \in starts : j < i}) = k - 1
    IN [k \in 1..Cardinality(starts) |-> SubSeq(s, nth(k), WordEnd(s, nth(k)))]

\* " ".join(words)
RECURSIVE Join(_)
Join(words) ==
    IF words = <<>> THEN <<>>
    ELSE IF Len(words) = 1 THEN words[1]
    ELSE words[1] \o <<" ">> \o Join(Tail(words))

\* words[:n]
Take(words, n) == SubSeq(words, 1, IF Len(words) < n THEN Len(words) ELSE n)

WordCount(s) == Len(Split(s))

\* unit repeated n times
Rep(unit, n) == [i \in 1..(n * Len(unit)) |-> unit[((i - 1) % Len(unit)) + 1]]

(***************************************************************************)
(* The literal texts of the handler.                                       *)
(***************************************************************************)
MOCK_DESCRIPTION ==
    <<"A"," ","d","e","l","i","c","i","o","u","s"," ","f","u","s","i","o","n",
     " ","o","f"," ","a","u","t","h","e","n","t","i","c"," ","I","n","d","i",
     "a","n"," ","s","p","i","c","e","s"," ","a","n","d"," ","p","r","e","m",
     "i","u","m"," ","c","h","e","e","s","e"," ","o","n"," ","c","r","i","s",
     "p","y"," ","c","r","u","s","t",".">>

MANGO_LASSI ==
    <<"P","a","i","r"," ","i","t"," ","w","i","t","h"," ","a"," ","r","e","f",
     "r","e","s","h","i","n","g"," ","M","a","n","g","o"," ","L","a","s","s",
     "i","!">>

RATE_LIMIT_SUFFIX ==
    <<":"," ","C","r","a","f","t","e","d"," ","w","i","t","h"," ","f","r","e",
     "s","h"," ","i","n","g","r","e","d","i","e","n","t","s"," ","a","n","d",
     " ","b","a","l","a","n","c","e","d"," ","s","p","i","c","e","s",","," ",
     "h","i","g","h","l","i","g","h","t","i","n","g"," ","i","n","v","i","t",
     "i","n","g"," ","t","e","x","t","u","r","e","s"," ","a","n","d"," ","a",
     "r","o","m","a","t","i","c"," ","f","l","a","v","o","r","."," ","P","e",
     "r","f","e","c","t"," ","f","o","r"," ","q","u","i","c","k"," ","c","r",
     "a","v","i","n","g","s"," ","a","n","d"," ","s","h","a","r","i","n","g",
     ".">>

API_SUFFIX ==
    <<":"," ","C","r","a","f","t","e","d"," ","w","i","t","h"," ","f","r","e",
     "s","h"," ","i","n","g","r","e","d","i","e","n","t","s"," ","a","n","d",
     " ","b","a","l","a","n","c","e","d"," ","s","p","i","c","e","s",","," ",
     "d","e","l","i","v","e","r","i","n","g"," ","i","n","v","i","t","i","n",
     "g"," ","t","e","x","t","u","r","e","s"," ","a","n","d"," ","s","a","t",
     "i","s","f","y","i","n","g"," ","f","l","a","v","o","r",".">>

GENERIC_DESCRIPTION ==
    <<"A"," ","d","e","l","i","c","i","o","u","s"," ","d","i","s","h"," ","p",
     "r","e","p","a","r","e","d"," ","w","i","t","h"," ","f","r","e","s","h",
     " ","i","n","g","r","e","d","i","e","n","t","s"," ","a","n","d"," ","a",
     "u","t","h","e","n","t","i","c"," ","f","l","a","v","o","r","s",".">>

GENERIC_UPSELL ==
    <<"P","a","i","r"," ","i","t"," ","w","i","t","h"," ","a"," ","r","e","f",
     "r","e","s","h","i","n","g"," ","b","e","v","e","r","a","g","e","!">>

(***************************************************************************)
(* Requests the model submits.                                             *)
(***************************************************************************)
Clients == {"10.0.0.1", "10.0.0.2"}

\* the client of the requests when the limiter is not the subject
OneClient == {"10.0.0.1"}

Alphabet == {"a", " ", "<", "'"}

\* every raw string over Alphabet of length 0..MaxRawLen
SmallNames == UNION {[1..n -> Alphabet] : n \in 0..MaxRawLen}

\* names around the length limit, with and without characters that are
\* stripped or removed
Edges == {<<>>, <<" ">>, <<"<">>}
LongNames ==
    {p \o Rep(<<"a">>, n) \o q :
        p \in Edges, q \in Edges, n \in (MAX_NAME_LEN - 2)..(MAX_NAME_LEN + 1)}

\* "a a a ... a" with k words
Words(k) == IF k = 0 THEN <<>> ELSE Rep(<<"a", " ">>, k - 1) \o <<"a">>

WordNames == {Words(k) : k \in {11, 12, 17, 18, 50}}

\* the raw names the validator is checked on
AllNames == SmallNames \cup LongNames \cup WordNames

\* the raw names submitted to the endpoint
RequestNames ==
    { <<>>, <<" ", " ">>, <<"a">>, <<"<", "a", ">">>,
      <<" ", "a", "'", "a", " ">>, <<"<", " ", "a">>,
      Words(11), Words(12), Words(18),
      <<"<">> \o Rep(<<"a">>, MAX_NAME_LEN), Rep(<<"a">>, MAX_NAME_LEN + 1) }

\* model_version as sent; Absent: the field is left out of the body
Absent == "<absent>"
RequestModels == allowed_models \cup {"gpt-5", Absent}

NoRequest == [client |-> "", item_name |-> <<>>, model_version |-> ""]
NoBody == [item_name |-> <<>>, model_version |-> ""]

(***************************************************************************)
(* Answers of the provider to one call.                                    *)
(*                                                                         *)
(* transport: the call raised a requests exception that is no HTTP answer  *)
(* (timeout, connection error); else status is the HTTP status.  For       *)
(* status 200, envelope                                                    *)
(* says what http_response.json() and the path choices/0/message/content   *)
(* give; content is the completion text as json.loads sees it.             *)
(***************************************************************************)
StrVal(t) == [type |-> "str", text |-> t]
NullVal == [type |-> "null", text |-> <<>>]
NumVal == [type |-> "number", text |-> <<>>]

NoFields == [f \in {} |-> NullVal]
Obj(fs) == [json |-> "object", fields |-> fs]
NotJson == [json |-> "invalid", fields |-> NoFields]
JsonArray == [json |-> "array", fields |-> NoFields]
Unassigned == [json |-> "unassigned", fields |-> NoFields]

Both(d, u) == Obj([f \in {"description", "upsell_suggestion"} |->
                    IF f = "description" THEN d ELSE u])
OnlyField(name, v) == Obj([f \in {name} |-> v])

\* descriptions a provider may send: at, under and over the word limit,
\* with single and with repeated blanks
ProviderDescriptions ==
    { <<>>,
      <<"a", " ", " ", "b", " ">>,
      Words(MAX_WORDS),
      Words(MAX_WORDS + 1),
      Rep(<<"a", " ", " ">>, MAX_WORDS + 2) }

ProviderUpsells == { StrVal(<<"x">>), StrVal(<<>>), NullVal }

ProviderContents ==
    { NotJson, JsonArray, Obj(NoFields),
      OnlyField("description", StrVal(<<"a">>)),
      OnlyField("upsell_suggestion", StrVal(<<"x">>)),
      Both(NumVal, StrVal(<<"x">>)), Both(NullVal, StrVal(<<"x">>)) }
    \cup {Both(StrVal(d), u) : d \in ProviderDescriptions, u \in ProviderUpsells}

Answer(t, s, e, c) == [transport |-> t, status |-> s, envelope |-> e, content |-> c]

TransportError == Answer(TRUE, 0, "none", Unassigned)

ProviderAnswers ==
    {TransportError}
    \cup {Answer(FALSE, s, "none", Unassigned) : s \in {404, 429, 500}}
    \cup {Answer(FALSE, 200, e, Unassigned) : e \in {"not_json", "no_choices", "null_content"}}
    \cup {Answer(FALSE, 200, "content", c) : c \in ProviderContents}

(***************************************************************************)
(* MenuItemRequest: the two validators.                                    *)
(***************************************************************************)
Rejected(why) == [ok |-> FALSE, value |-> <<>>, error |-> why]
Accepted(v) == [ok |-> TRUE, value |-> v, error |-> ""]

\* a validator that measures the raw name
validate_item_name_RawLength(v) ==
    IF v = <<>> \/ Strip(v) = <<>> THEN Rejected("empty")
    ELSE LET sanitized == RemoveForbidden(Strip(v)) IN
         IF Len(v) > MAX_NAME_LEN THEN Rejected("too long")
         ELSE IF Len(sanitized) < MIN_NAME_LEN THEN Rejected("too short")
         ELSE Accepted(sanitized)

validate_item_name(v) ==
    IF v = <<>> \/ Strip(v) = <<>> THEN Rejected("empty")
    ELSE LET sanitized == RemoveForbidden(Strip(v)) IN
         IF Len(sanitized) > MAX_NAME_LEN THEN Rejected("too long")
         ELSE IF Len(sanitized) < MIN_NAME_LEN THEN Rejected("too short")
         ELSE Accepted(sanitized)

validate_model_version(v) == v \in allowed_models

\* a body that keeps the raw name
MenuItemRequest_RawName(r) ==
    LET name == validate_item_name(r.item_name) IN
    IF ~name.ok THEN [ok |-> FALSE, body |-> NoBody]
    ELSE IF r.model_version = Absent
         THEN [ok |-> TRUE,
               body |-> [item_name |-> r.item_name, model_version |-> DEFAULT_MODEL]]
    ELSE IF ~validate_model_version(r.model_version) THEN [ok |-> FALSE, body |-> NoBody]
    ELSE [ok |-> TRUE,
          body |-> [item_name |-> r.item_name, model_version |-> r.model_version]]

\* the parsed body, when both fields validate; a field left out takes its
\* default without validation
MenuItemRequest(r) ==
    LET name == validate_item_name(r.item_name) IN
    IF ~name.ok THEN [ok |-> FALSE, body |-> NoBody]
    ELSE IF r.model_version = Absent
         THEN [ok |-> TRUE,
               body |-> [item_name |-> name.value, model_version |-> DEFAULT_MODEL]]
    ELSE IF ~validate_model_version(r.model_version) THEN [ok |-> FALSE, body |-> NoBody]
    ELSE [ok |-> TRUE,
          body |-> [item_name |-> name.value, model_version |-> r.model_version]]

(***************************************************************************)
(* What the client receives.                                               *)
(***************************************************************************)
NoOutcome == [kind |-> "none"]

\* MenuItemResponse: success is never given, so it keeps its default
MenuItemResponse(d, u, m) ==
    [kind |-> "result", status |-> 200, description |-> d,
     upsell_suggestion |-> u, model_used |-> m, success |-> TRUE]

ErrorResponse(s, by) == [kind |-> "error", status |-> s, origin |-> by]

(***************************************************************************)
(* Initial state: the service has started, no request has arrived.         *)
(***************************************************************************)
Init ==
    /\ api_key \in BOOLEAN
    /\ hits = [c \in Clients |-> 0]
    /\ pc = "idle"
    /\ req = NoRequest
    /\ body = NoBody
    /\ prompt_item = <<>>
    /\ model_used = ""
    /\ iter = 0
    /\ ai_response = Unassigned
    /\ calls = <<>>
    /\ sleeps = 0
    /\ outcome = NoOutcome

\* a request arrives
Submit(c, name, mv) ==
    /\ pc = "idle"
    /\ hits[c] < MaxHits
    /\ req' = [client |-> c, item_name |-> name, model_version |-> mv]
    /\ pc' = "validate"
    /\ UNCHANGED <<api_key, hits, body, prompt_item, model_used, iter,
                   ai_response, calls, sleeps, outcome>>

\* the body is parsed into MenuItemRequest before the endpoint function is
\* called; a validation error is answered with 422
Validate ==
    /\ pc = "validate"
    /\ LET parsed == MenuItemRequest(req) IN
       IF parsed.ok
       THEN /\ body' = parsed.body
            /\ pc' = "limit"
            /\ UNCHANGED outcome
       ELSE /\ outcome' = ErrorResponse(422, "validation")
            /\ pc' = "done"
            /\ UNCHANGED body
    /\ UNCHANGED <<api_key, hits, req, prompt_item, model_used, iter,
                   ai_response, calls, sleeps>>

\* a limit that is one too strict
WithinLimit_Strict(n) == n < RATE_LIMIT

\* the limit of the decorator: the hit is counted, then compared
WithinLimit(n) == n <= RATE_LIMIT

\* @limiter.limit("10/minute"), keyed by the client address
Limit ==
    /\ pc = "limit"
    /\ hits' = [hits EXCEPT ![req.client] = @ + 1]
    /\ IF WithinLimit(hits'[req.client])
       THEN /\ pc' = "handler"
            /\ UNCHANGED outcome
       ELSE /\ outcome' = ErrorResponse(429, "limiter")
            /\ pc' = "done"
    /\ UNCHANGED <<api_key, req, body, prompt_item, model_used, iter,
                   ai_response, calls, sleeps>>

\* the minute of a client's window has passed: its counter starts again
WindowExpire(c) ==
    /\ hits[c] > 0
    /\ hits' = [hits EXCEPT ![c] = 0]
    /\ UNCHANGED <<api_key, pc, req, body, prompt_item, model_used, iter,
                   ai_response, calls, sleeps, outcome>>

\* a mock id of the other tier
MOCK_MODEL_Premium == "mock-gpt-4"

MOCK_MODEL == "mock-gpt-3.5-turbo"

\* the handler up to the attempt loop: the mock result without a key, else
\* the prompt is formatted and model_used is set
Start ==
    /\ pc = "handler"
    /\ IF ~api_key
       THEN /\ outcome' = MenuItemResponse(MOCK_DESCRIPTION, MANGO_LASSI, MOCK_MODEL)
            /\ pc' = "done"
            /\ UNCHANGED <<prompt_item, model_used>>
       ELSE /\ prompt_item' = body.item_name
            /\ model_used' = body.model_version
            /\ pc' = "attempt"
            /\ UNCHANGED outcome
    /\ iter' = 0
    /\ UNCHANGED <<api_key, hits, req, body, ai_response, calls, sleeps>>

\* the locally built descriptions
RateLimitDescription(name) == name \o RATE_LIMIT_SUFFIX
ApiDescription(name) == name \o API_SUFFIX

RateLimitFallback ==
    MenuItemResponse(RateLimitDescription(body.item_name), MANGO_LASSI,
                     model_used \o " (rate-limit-fallback)")
ApiFallback ==
    MenuItemResponse(ApiDescription(body.item_name), MANGO_LASSI,
                     model_used \o " (api-fallback)")
\* a transport failure tagged like an API failure
NetworkFallback_AsApi ==
    MenuItemResponse(ApiDescription(body.item_name), MANGO_LASSI,
                     model_used \o " (api-fallback)")

NetworkFallback ==
    MenuItemResponse(ApiDescription(body.item_name), MANGO_LASSI,
                     model_used \o " (network-fallback)")
GenericFallback ==
    MenuItemResponse(GENERIC_DESCRIPTION, GENERIC_UPSELL,
                     body.model_version \o " (fallback)")
InternalError == ErrorResponse(500, "handler")

\* the call gave a completion text: raise_for_status, json() and the
\* subscripts all passed
GotText(a) == ~a.transport /\ a.status = 200 /\ a.envelope = "content"

\* a downgrade test that forgets which model was asked
ModelUnavailable_AnyModel(a, m) == a.status = 404

\* a downgrade on any HTTP error of the premium model
ModelUnavailable_AnyError(a, m) == m = "gpt-4"

\* the first test of the HTTPError handler
ModelUnavailable(a, m) == a.status = 404 /\ m = "gpt-4"

\* a downgrade that keeps the premium model
DowngradeTo_Same == "gpt-4"

\* the model the handler falls back to
DowngradeTo == "gpt-3.5-turbo"

\* a backoff that also takes server errors for rate limiting
RateLimited_ServerErrors(a) == a.status \in {429, 500}

\* the second test of the HTTPError handler
RateLimited(a) == a.status = 429

\* the exception a call raises when it gives no text: raise_for_status
\* raises HTTPError, a subclass of RequestException; a body that is not JSON
\* raises the JSON error of the installed requests (a RequestException in
\* newer versions, a plain ValueError in older ones); a missing key or
\* index raises KeyError, a null content AttributeError
ExceptionOf(a, notjson_is_request_exception) ==
    IF a.transport THEN "RequestException"
    ELSE IF a.status # 200 THEN "HTTPError"
    ELSE IF a.envelope = "not_json"
         THEN (IF notjson_is_request_exception THEN "RequestException" ELSE "ValueError")
    ELSE IF a.envelope = "no_choices" THEN "KeyError"
    ELSE "AttributeError"

\* the except clauses of the outer try, for an exception that reaches them
OuterHandler(exc, status) ==
    IF exc = "HTTPError"
    THEN (IF status = 429 THEN ErrorResponse(429, "handler")
          ELSE ErrorResponse(503, "handler"))
    ELSE IF exc = "RequestException" THEN ErrorResponse(503, "handler")
    ELSE InternalError

\* a failure handler that passes the provider's HTTP status on
AttemptFailure_Reraise(a, notjson_is_request_exception) ==
    IF a.transport THEN NetworkFallback
    ELSE IF a.status # 200 THEN ErrorResponse(a.status, "handler")
    ELSE IF a.envelope = "not_json"
         THEN (IF notjson_is_request_exception THEN NetworkFallback ELSE InternalError)
    ELSE InternalError

\* an attempt loop without its own except clauses
AttemptFailure_Uncaught(a, notjson_is_request_exception) ==
    OuterHandler(ExceptionOf(a, notjson_is_request_exception), a.status)

\* what an iteration does when the attempt loop's call does not give text
\* and is neither downgraded nor rate limited
AttemptFailure(a, notjson_is_request_exception) ==
    LET exc == ExceptionOf(a, notjson_is_request_exception) IN
    IF exc = "HTTPError" THEN ApiFallback
    ELSE IF exc = "RequestException" THEN NetworkFallback
    ELSE OuterHandler(exc, a.status)

\* one iteration of "for _ in range(2)": the call and its handlers
Attempt(a, v) ==
    /\ pc = "attempt"
    /\ calls' = Append(calls, [kind |-> IF iter = 0 THEN "primary" ELSE "downgraded",
                               model |-> model_used, answer |-> a])
    /\ IF GotText(a)
       THEN /\ ai_response' = a.content
            /\ pc' = "parse"
            /\ UNCHANGED <<model_used, iter, sleeps, outcome>>
       ELSE IF ~a.transport /\ a.status # 200 /\ ModelUnavailable(a, model_used)
       THEN /\ model_used' = DowngradeTo
            /\ iter' = iter + 1
            /\ pc' = IF iter + 1 < LOOP_ATTEMPTS THEN "attempt" ELSE "parse"
            /\ UNCHANGED <<ai_response, sleeps, outcome>>
       ELSE IF ~a.transport /\ a.status # 200 /\ RateLimited(a)
       THEN /\ sleeps' = sleeps + 1
            /\ pc' = "backoff"
            /\ UNCHANGED <<model_used, iter, ai_response, outcome>>
       ELSE /\ outcome' = AttemptFailure(a, v)
            /\ pc' = "done"
            /\ UNCHANGED <<model_used, iter, ai_response, sleeps>>
    /\ UNCHANGED <<api_key, hits, req, body, prompt_item>>

\* a retry whose failure is reported as an ordinary API failure
RetryFailure_Api == ApiFallback

\* what the retry returns when it raises anything
RetryFailure == RateLimitFallback

\* a retry that sleeps and tries again, up to three times, while the
\* provider keeps answering 429
BackoffRetry_UpToThree(a) ==
    /\ pc = "backoff"
    /\ calls' = Append(calls, [kind |-> "backoff", model |-> model_used, answer |-> a])
    /\ IF GotText(a)
       THEN /\ ai_response' = a.content
            /\ pc' = "parse"
            /\ UNCHANGED <<outcome, sleeps>>
       ELSE IF ~a.transport /\ a.status = 429 /\ sleeps < 3
       THEN /\ sleeps' = sleeps + 1
            /\ UNCHANGED <<pc, ai_response, outcome>>
       ELSE /\ outcome' = RetryFailure
            /\ pc' = "done"
            /\ UNCHANGED <<ai_response, sleeps>>
    /\ UNCHANGED <<api_key, hits, req, body, prompt_item, model_used, iter>>

\* the retry after the sleep, with the same payload
BackoffRetry(a) ==
    /\ pc = "backoff"
    /\ calls' = Append(calls, [kind |-> "backoff", model |-> model_used, answer |-> a])
    /\ IF GotText(a)
       THEN /\ ai_response' = a.content
            /\ pc' = "parse"
            /\ UNCHANGED outcome
       ELSE /\ outcome' = RetryFailure
            /\ pc' = "done"
            /\ UNCHANGED ai_response
    /\ UNCHANGED <<api_key, hits, req, body, prompt_item, model_used, iter, sleeps>>

\* a truncation that rejoins the words of every description
Truncate_AlwaysRejoin(d) == Join(Take(Split(d), MAX_WORDS))

\* the description returned for a provider description d
Truncate(d) ==
    IF Len(Split(d)) > MAX_WORDS THEN Join(Take(Split(d), MAX_WORDS)) ELSE d

\* parsing and validation of ai_response
ParseResult(r) ==
    IF r.json = "unassigned" THEN OuterHandler("UnboundLocalError", 0)
    ELSE IF r.json = "invalid" THEN GenericFallback
    ELSE IF r.json # "object" THEN GenericFallback
    ELSE IF "description" \notin DOMAIN r.fields
            \/ "upsell_suggestion" \notin DOMAIN r.fields THEN GenericFallback
    ELSE LET d == r.fields["description"]
             u == r.fields["upsell_suggestion"] IN
         IF d.type # "str" THEN OuterHandler("AttributeError", 0)
         ELSE IF u.type # "str" THEN GenericFallback
         ELSE MenuItemResponse(Truncate(d.text), u.text, model_used)

Parse ==
    /\ pc = "parse"
    /\ outcome' = ParseResult(ai_response)
    /\ pc' = "done"
    /\ UNCHANGED <<api_key, hits, req, body, prompt_item, model_used, iter,
                   ai_response, calls, sleeps>>

\* the response is sent; the request's locals are gone
Respond ==
    /\ pc = "done"
    /\ pc' = "idle"
    /\ req' = NoRequest
    /\ body' = NoBody
    /\ prompt_item' = <<>>
    /\ model_used' = ""
    /\ iter' = 0
    /\ ai_response' = Unassigned
    /\ calls' = <<>>
    /\ sleeps' = 0
    /\ outcome' = NoOutcome
    /\ UNCHANGED <<api_key, hits>>

Next ==
    \/ \E c \in OneClient, name \in RequestNames, mv \in RequestModels : Submit(c, name, mv)
    \/ Validate
    \/ Limit
    \/ \E c \in Clients : WindowExpire(c)
    \/ Start
    \/ \E a \in ProviderAnswers, v \in BOOLEAN : Attempt(a, v)
    \/ \E a \in ProviderAnswers : BackoffRetry(a)
    \/ Parse
    \/ Respond

Spec == Init /\ [][Next]_vars

(***************************************************************************)
(* Termination of a request, on a few requests and on every kind of        *)
(* provider answer.  The handler runs to its end once a request has        *)
(* arrived: every provider call returns or raises within its timeout of    *)
(* 30 seconds and the sleep lasts at most 0.75 seconds.                    *)
(***************************************************************************)
FairNames == {<<"a">>, <<"a", "b">>}
FairModels == allowed_models
FairAnswers ==
    {TransportError}
    \cup {Answer(FALSE, s, "none", Unassigned) : s \in {404, 429, 500}}
    \cup {Answer(FALSE, 200, "no_choices", Unassigned)}
    \cup {Answer(FALSE, 200, "content", c) :
             c \in {NotJson, Both(StrVal(<<"a">>), StrVal(<<"x">>))}}

AttemptFair == \E a \in FairAnswers, v \in BOOLEAN : Attempt(a, v)
BackoffRetryFair == \E a \in FairAnswers : BackoffRetry(a)

NextFair ==
    \/ \E c \in OneClient, name \in FairNames, mv \in FairModels : Submit(c, name, mv)
    \/ Validate
    \/ Limit
    \/ \E c \in OneClient : WindowExpire(c)
    \/ Start
    \/ AttemptFair
    \/ BackoffRetryFair
    \/ Parse
    \/ Respond

SpecFair ==
    /\ Init
    /\ [][NextFair]_vars
    /\ WF_vars(Validate)
    /\ WF_vars(Limit)
    /\ WF_vars(Start)
    /\ WF_vars(AttemptFair)
    /\ WF_vars(BackoffRetryFair)
    /\ WF_vars(Parse)

(***************************************************************************)
(* The validator alone, on every raw name of AllNames.                     *)
(***************************************************************************)
InitValidator ==
    /\ api_key \in BOOLEAN
    /\ hits = [c \in Clients |-> 0]
    /\ pc = "validate"
    /\ req \in [client : Clients, item_name : AllNames, model_version : RequestModels]
    /\ body = NoBody
    /\ prompt_item = <<>>
    /\ model_used = ""
    /\ iter = 0
    /\ ai_response = Unassigned
    /\ calls = <<>>
    /\ sleeps = 0
    /\ outcome = NoOutcome

NextValidator == Validate

SpecValidator == InitValidator /\ [][NextValidator]_vars

(***************************************************************************)
(* The limiter with two client addresses, on a few requests.               *)
(***************************************************************************)
LimiterNames == {<<"a">>, <<"a", "b">>}
LimiterAnswers == {TransportError, Answer(FALSE, 429, "none", Unassigned),
                   Answer(FALSE, 200, "content", NotJson)}

NextLimiter ==
    \/ \E c \in Clients, name \in LimiterNames : Submit(c, name, Absent)
    \/ Validate
    \/ Limit
    \/ \E c \in Clients : WindowExpire(c)
    \/ Start
    \/ \E a \in LimiterAnswers, v \in BOOLEAN : Attempt(a, v)
    \/ \E a \in LimiterAnswers : BackoffRetry(a)
    \/ Parse
    \/ Respond

SpecLimiter == Init /\ [][NextLimiter]_vars

(***************************************************************************)
(* Vocabulary of the properties.                                           *)
(***************************************************************************)
Returned == pc = "done" /\ outcome.kind = "result"
Tagged(suffix) == {m \o suffix : m \in allowed_models}
LastCall == calls[Len(calls)]
IsAttempt(c) == c.kind \in {"primary", "downgraded"}
Answered(c, s) == ~c.answer.transport /\ c.answer.status = s
\* the call failed: anything but a 200 answer carrying a completion text
Failed(c) == c.answer.transport \/ c.answer.status # 200 \/ c.answer.envelope # "content"

\* C1 (as stated): a request makes at most two provider calls, the primary
\* attempt, the downgraded attempt and the backoff retry counted together.
C1_AtMostTwoCalls == Len(calls) <= 2

\* C1 (amended): a request makes at most three provider calls; a third call
\* is made only as the backoff retry of a downgraded attempt, that is after
\* a 404 on gpt-4 and then a 429 on gpt-3.5-turbo; every other request makes
\* at most two.
C1_AtMostThreeCalls ==
    /\ Len(calls) <= 3
    /\ Len(calls) = 3 =>
          /\ calls[1].kind = "primary" /\ calls[1].model = "gpt-4"
          /\ Answered(calls[1], 404)
          /\ calls[2].kind = "downgraded" /\ calls[2].model = "gpt-3.5-turbo"
          /\ Answered(calls[2], 429)
          /\ calls[3].kind = "backoff" /\ calls[3].model = "gpt-3.5-turbo"

C1_Witness == pc = "done" /\ Len(calls) = 3

\* C2: every returned result has a description of at most 30
\* whitespace-separated words.
C2_DescriptionWithinLimit ==
    Returned => WordCount(outcome.description) <= MAX_WORDS

\* a 200 answer whose content breaks the expected schema, in the five ways
\* the claim lists
SchemaViolation(a) ==
    /\ ~a.transport /\ a.status = 200
    /\ \/ a.envelope \in {"no_choices", "null_content"}
       \/ /\ a.envelope = "content"
          /\ \/ a.content.json \in {"invalid", "array"}
             \/ /\ a.content.json = "object"
                /\ \/ "description" \notin DOMAIN a.content.fields
                   \/ "upsell_suggestion" \notin DOMAIN a.content.fields
                   \/ a.content.fields["description"].type # "str"

\* C3: when the provider answers an attempt with status 200 and content
\* that violates the schema, the request ends with the generic result
\* tagged "(fallback)" and success = true, never with an error response.
C3_SchemaViolationIsAbsorbed ==
    (pc = "done" /\ calls # <<>> /\ SchemaViolation(LastCall.answer)) =>
        /\ outcome.kind = "result"
        /\ outcome.success
        /\ outcome.model_used \in Tagged(" (fallback)")
        /\ outcome.description = GENERIC_DESCRIPTION

\* C4: after a 404 on a gpt-4 first attempt exactly one further attempt (one
\* more iteration of the loop) is made, on gpt-3.5-turbo; when that one
\* answers 404 too the request ends with a fallback result after two calls;
\* a 404 on a gpt-3.5-turbo first attempt ends the request after one call.
C4_DowngradeOnce ==
    /\ (Len(calls) >= 1 /\ calls[1].model = "gpt-4" /\ Answered(calls[1], 404)) =>
          /\ Len(calls) = 1 => pc = "attempt"
          /\ Len(calls) >= 2 =>
                /\ calls[2].kind = "downgraded"
                /\ calls[2].model = "gpt-3.5-turbo"
                /\ Cardinality({i \in 1..Len(calls) : calls[i].kind = "downgraded"}) = 1
                /\ Answered(calls[2], 404) =>
                      /\ Len(calls) = 2
                      /\ Returned
                      /\ outcome.model_used = "gpt-3.5-turbo (api-fallback)"
    /\ (Len(calls) >= 1 /\ calls[1].model = "gpt-3.5-turbo" /\ Answered(calls[1], 404)) =>
          /\ Len(calls) = 1
          /\ Returned
          /\ outcome.model_used = "gpt-3.5-turbo (api-fallback)"
    /\ \A i \in 1..Len(calls) : calls[i].kind = "downgraded" =>
          i = 2 /\ calls[1].model = "gpt-4" /\ Answered(calls[1], 404)

C4_Witness ==
    /\ pc = "done" /\ Len(calls) = 2
    /\ calls[1].model = "gpt-4" /\ Answered(calls[1], 404)
    /\ calls[2].model = "gpt-3.5-turbo" /\ Answered(calls[2], 404)

\* C5: an attempt answered 429 is followed by one sleep and exactly one
\* retry on the same model; a retry that fails in any way ends the request
\* with a result tagged "<model> (rate-limit-fallback)" and success = true;
\* a retry that succeeds hands its text to response validation.
C5_BackoffOnce ==
    LET n == Len(calls)
        limited == {i \in 1..n : IsAttempt(calls[i]) /\ Answered(calls[i], 429)}
        retries == {i \in 1..n : calls[i].kind = "backoff"}
    IN /\ sleeps = Cardinality(limited)
       /\ sleeps <= 1
       /\ \A i \in limited :
             IF i = n THEN pc = "backoff" ELSE i + 1 = n /\ n \in retries
       /\ \A i \in retries :
             /\ i > 1 /\ i - 1 \in limited /\ i = n
             /\ calls[i].model = calls[i - 1].model
             /\ IF Failed(calls[i])
                THEN /\ Returned
                     /\ outcome.success
                     /\ outcome.model_used = calls[i].model \o " (rate-limit-fallback)"
                     /\ outcome.description = body.item_name \o RATE_LIMIT_SUFFIX
                ELSE /\ pc \in {"parse", "done"}
                     /\ ai_response = calls[i].answer.content
                     /\ pc = "done" => outcome \in {ParseResult(ai_response)}

C5_Witness ==
    /\ pc = "done" /\ Len(calls) = 2
    /\ calls[1].kind = "primary" /\ Answered(calls[1], 429)
    /\ calls[2].kind = "backoff" /\ Answered(calls[2], 429)
    /\ outcome.kind = "result"

\* C6 (as stated): without a credential every valid request makes no
\* provider call and returns the fixed mock texts with model_used equal to
\* "mock-" followed by the tier the request asked for.
C6_MockNamesRequestedTier ==
    (~api_key /\ Returned) =>
        /\ calls = <<>>
        /\ outcome.description = MOCK_DESCRIPTION
        /\ outcome.upsell_suggestion = MANGO_LASSI
        /\ outcome.model_used = "mock-" \o body.model_version

\* C6 (amended): without a credential every valid admitted request makes
\* no provider call and returns the fixed mock texts with model_used equal
\* to "mock-gpt-3.5-turbo", whichever tier the request asked for.
C6_MockIsFixed ==
    ~api_key =>
        /\ calls = <<>>
        /\ sleeps = 0
        /\ pc \notin {"attempt", "backoff", "parse"}
        /\ (pc = "done" /\ outcome.kind = "error") =>
               outcome.origin \in {"validation", "limiter"}
        /\ Returned =>
               /\ outcome.description = MOCK_DESCRIPTION
               /\ outcome.upsell_suggestion = MANGO_LASSI
               /\ outcome.model_used = "mock-gpt-3.5-turbo"
               /\ outcome.success

C6_Witness == ~api_key /\ Returned /\ body.model_version = "gpt-4"

\* the raw name carries a model the validator lets through
ModelPasses(r) == r.model_version \in allowed_models \cup {Absent}

\* the part of v from its first to its last non-whitespace character, by
\* position
Trimmed(v) ==
    LET solid == {i \in 1..Len(v) : v[i] \notin Whitespace} IN
    [i \in 1..Cardinality({j \in 1..Len(v) :
                             /\ \E k \in solid : k <= j
                             /\ \E k \in solid : k >= j}) |->
        v[i + Cardinality({j \in 1..Len(v) : \A k \in solid : j < k}) ]]

NoForbidden(s) == \A i \in 1..Len(s) : s[i] \notin Forbidden
NoOuterWhitespace(s) ==
    s # <<>> => s[1] \notin Whitespace /\ s[Len(s)] \notin Whitespace

\* C7 (as stated): validate_item_name rejects a raw name when its original
\* length exceeds 100 or when it reduces to fewer than 2 characters, and
\* otherwise returns it without <, >, ", ' and without leading or trailing
\* whitespace.
C7_RejectsByRawLength ==
    (pc # "validate" /\ ModelPasses(req)) =>
        LET v == req.item_name
            reduced == RemoveForbidden(Trimmed(v))
        IN IF Len(v) > MAX_NAME_LEN \/ Len(reduced) < MIN_NAME_LEN
           THEN outcome.kind = "error"
           ELSE /\ outcome.kind = "none"
                /\ NoForbidden(body.item_name)
                /\ NoOuterWhitespace(body.item_name)
                /\ body.item_name = Strip(RemoveForbidden(v))

\* C7 (amended): validate_item_name rejects a raw name when the name, trimmed
\* and then freed of <, >, ", ', is longer than 100 or shorter than 2
\* characters; otherwise it returns that trimmed and freed name, which has
\* none of the four characters but keeps whitespace that stood next to a
\* removed character at either end.
C7_RejectsBySanitizedLength ==
    (pc # "validate" /\ ModelPasses(req)) =>
        LET v == req.item_name
            reduced == RemoveForbidden(Trimmed(v))
        IN IF Len(reduced) > MAX_NAME_LEN \/ Len(reduced) < MIN_NAME_LEN
           THEN outcome.kind = "error" /\ outcome.status = 422 /\ body = NoBody
           ELSE /\ outcome.kind = "none"
                /\ pc = "limit"
                /\ NoForbidden(body.item_name)
                /\ body.item_name = reduced

\* accepted although the raw name is longer than 100 characters
C7_Witness ==
    /\ pc = "limit"
    /\ Len(req.item_name) > MAX_NAME_LEN
    /\ Len(body.item_name) = MAX_NAME_LEN

\* the request fails validation, in the claim's words
FailsValidation(r) ==
    LET s == RemoveForbidden(Trimmed(r.item_name)) IN
    \/ r.item_name = <<>>
    \/ Len(s) < MIN_NAME_LEN
    \/ Len(s) > MAX_NAME_LEN
    \/ r.model_version \notin allowed_models \cup {Absent}

CleanName(s) ==
    /\ Len(s) >= MIN_NAME_LEN
    /\ Len(s) <= MAX_NAME_LEN
    /\ NoForbidden(s)

\* the item name at the head of a locally built description
NameIn(d, suffix) == SubSeq(d, 1, Len(d) - Len(suffix))

\* C8: a request that fails validation never reaches the handler: it makes
\* no provider call and gets no result; every item name in the prompt or in
\* a fallback description is 2 to 100 characters long and free of <, >, "
\* and '.
C8_OnlySanitizedNames ==
    /\ (pc \notin {"idle", "validate"} /\ FailsValidation(req)) =>
          /\ pc = "done"
          /\ outcome.kind = "error" /\ outcome.origin = "validation"
          /\ calls = <<>>
          /\ prompt_item = <<>>
    /\ calls # <<>> => CleanName(prompt_item)
    /\ (Returned /\ outcome.model_used \in Tagged(" (rate-limit-fallback)")) =>
          CleanName(NameIn(outcome.description, RATE_LIMIT_SUFFIX))
    /\ (Returned /\ outcome.model_used \in
                       Tagged(" (api-fallback)") \cup Tagged(" (network-fallback)")) =>
          CleanName(NameIn(outcome.description, API_SUFFIX))

\* a fallback description for a raw name that had a forbidden character
C8_Witness ==
    /\ Returned
    /\ outcome.model_used \in Tagged(" (api-fallback)")
    /\ ~NoForbidden(req.item_name)

\* C9: for one client address the first 10 requests of a window are
\* admitted and the 11th is rejected before the handler runs, without any
\* provider call.
C9_EleventhIsRejected ==
    /\ [][(pc = "limit" /\ pc' # "limit") =>
            IF hits[req.client] < RATE_LIMIT
            THEN pc' = "handler" /\ outcome' = NoOutcome
            ELSE /\ pc' = "done"
                 /\ outcome' = ErrorResponse(429, "limiter")
                 /\ calls' = <<>>]_vars
    /\ []((pc = "done" /\ outcome.kind = "error" /\ outcome.origin = "limiter") =>
             calls = <<>> /\ prompt_item = <<>>)

C9_Witness ==
    /\ pc = "done"
    /\ outcome.kind = "error"
    /\ outcome.origin = "limiter"
    /\ hits[req.client] = RATE_LIMIT + 1

\* C10: every admitted valid request ends either with a 200 result whose
\* success is true or with an error whose status is 429, 503 or 500.
C10_OutcomeKinds ==
    /\ pc \in {"handler", "attempt", "backoff", "parse"} => outcome = NoOutcome
    /\ (pc = "done" /\ ~(outcome.kind = "error"
                         /\ outcome.origin \in {"validation", "limiter"})) =>
          \/ outcome.kind = "result" /\ outcome.status = 200 /\ outcome.success
          \/ outcome.kind = "error" /\ outcome.status \in {429, 503, 500}

C10_Witness ==
    /\ pc = "done"
    /\ outcome.kind = "error"
    /\ outcome.origin = "handler"
    /\ outcome.status = 500

\* C11: every returned result has a non-empty upsell_suggestion, also a
\* result built from a parsed provider response.
C11_UpsellNonEmpty == Returned => outcome.upsell_suggestion # <<>>

\* the last call gave a text that is an object with both fields as strings
ParsedStrings ==
    /\ calls # <<>>
    /\ GotText(LastCall.answer)
    /\ LastCall.answer.content.json = "object"
    /\ DOMAIN LastCall.answer.content.fields = {"description", "upsell_suggestion"}
    /\ \A f \in {"description", "upsell_suggestion"} :
          LastCall.answer.content.fields[f].type = "str"

ProviderDescription == LastCall.answer.content.fields["description"].text
ProviderUpsell == LastCall.answer.content.fields["upsell_suggestion"].text

\* the first 30 words of d, joined by single blanks
FirstWords(d) ==
    LET words == Split(d) IN
    IF Len(words) <= MAX_WORDS THEN Join(words) ELSE Join(SubSeq(words, 1, MAX_WORDS))

Suffixes == {" (rate-limit-fallback)", " (api-fallback)", " (network-fallback)",
             " (fallback)"}

\* C12: model_used is a bare allow-list id exactly when description and
\* upsell suggestion come from a parsed provider response; every other
\* result has the "mock-" prefix or exactly one of the four suffixes, and
\* the suffix names the path taken: the failed backoff retry, the HTTP
\* error of an attempt, the transport failure of an attempt, or the text
\* that did not pass response validation.
C12_TagNamesPath ==
    Returned =>
        LET mu == outcome.model_used IN
        /\ mu \in allowed_models <=>
              /\ ParsedStrings
              /\ outcome.upsell_suggestion = ProviderUpsell
              /\ outcome.description \in {ProviderDescription, FirstWords(ProviderDescription)}
        /\ mu \notin allowed_models =>
              Cardinality({s \in Suffixes : mu \in Tagged(s)})
                  + (IF mu \in {"mock-" \o m : m \in allowed_models} THEN 1 ELSE 0) = 1
        /\ mu \in {"mock-" \o m : m \in allowed_models} <=> ~api_key
        /\ mu \in Tagged(" (rate-limit-fallback)") <=>
              calls # <<>> /\ LastCall.kind = "backoff" /\ Failed(LastCall)
        /\ mu \in Tagged(" (api-fallback)") <=>
              /\ calls # <<>> /\ IsAttempt(LastCall)
              /\ ~LastCall.answer.transport /\ LastCall.answer.status # 200
        /\ mu \in Tagged(" (network-fallback)") <=>
              /\ calls # <<>> /\ IsAttempt(LastCall)
              /\ \/ LastCall.answer.transport
                 \/ LastCall.answer.status = 200 /\ LastCall.answer.envelope = "not_json"
        /\ mu \in Tagged(" (fallback)") <=>
              calls # <<>> /\ GotText(LastCall.answer) /\ ~ParsedStrings

C12_Witness ==
    /\ Returned
    /\ outcome.model_used \in Tagged(" (network-fallback)")
    /\ LastCall.kind = "downgraded"

\* the last call gave a text that is an object with both fields and a
\* string description
ParsedWithDescription ==
    /\ calls # <<>>
    /\ GotText(LastCall.answer)
    /\ LastCall.answer.content.json = "object"
    /\ DOMAIN LastCall.answer.content.fields = {"description", "upsell_suggestion"}
    /\ LastCall.answer.content.fields["description"].type = "str"

\* C13 (as stated): when the provider's text parses to an object with both
\* fields and a string description, the returned description is the
\* provider's, unchanged up to 30 words and else its first 30 words joined
\* by single blanks, and the returned upsell suggestion is the provider's
\* value.
C13_PassThrough ==
    (pc = "done" /\ ParsedWithDescription) =>
        /\ outcome.kind = "result"
        /\ outcome.description =
              IF WordCount(ProviderDescription) <= MAX_WORDS
              THEN ProviderDescription ELSE FirstWords(ProviderDescription)
        /\ LastCall.answer.content.fields["upsell_suggestion"].type = "str"
        /\ outcome.upsell_suggestion = ProviderUpsell

\* C13 (amended): the same, when the upsell_suggestion of the object is a
\* string as well.
C13_PassThroughOfStrings ==
    (pc = "done" /\ ParsedStrings) =>
        /\ outcome.kind = "result"
        /\ outcome.description =
              IF WordCount(ProviderDescription) <= MAX_WORDS
              THEN ProviderDescription ELSE FirstWords(ProviderDescription)
        /\ outcome.upsell_suggestion = ProviderUpsell

C13_Witness ==
    /\ Returned
    /\ ParsedStrings
    /\ WordCount(ProviderDescription) > MAX_WORDS
    /\ WordCount(outcome.description) = MAX_WORDS

\* C14: on a primary or downgraded attempt a transport error ends the
\* request at once with a result tagged "(network-fallback)", and an HTTP
\* error other than 429 and other than 404 on gpt-4 ends it at once with a
\* result tagged "(api-fallback)"; no call and no sleep follow.
C14_NoRetryOfOtherFailures ==
    \A i \in 1..Len(calls) :
        LET c == calls[i] IN
        /\ (IsAttempt(c) /\ c.answer.transport) =>
              /\ i = Len(calls)
              /\ sleeps = 0
              /\ Returned
              /\ outcome.model_used = c.model \o " (network-fallback)"
        /\ (IsAttempt(c) /\ ~c.answer.transport /\ c.answer.status \notin {200, 429}
               /\ ~(c.answer.status = 404 /\ c.model = "gpt-4")) =>
              /\ i = Len(calls)
              /\ sleeps = 0
              /\ Returned
              /\ outcome.model_used = c.model \o " (api-fallback)"

C14_Witness ==
    /\ Returned
    /\ Len(calls) = 2
    /\ calls[2].kind = "downgraded"
    /\ Answered(calls[2], 500)
    /\ outcome.model_used = "gpt-3.5-turbo (api-fallback)"

\* C15: whatever the provider answers, each request reaches its outcome
\* after a bounded number of steps: at most one downgraded attempt, at most
\* one backoff retry, at most one sleep, at most three calls.
C15_BoundedAndTerminates ==
    /\ (pc = "validate") ~> (pc = "done")
    /\ [](/\ sleeps <= 1
          /\ Len(calls) <= 3
          /\ Cardinality({i \in 1..Len(calls) : calls[i].kind = "downgraded"}) <= 1
          /\ Cardinality({i \in 1..Len(calls) : calls[i].kind = "backoff"}) <= 1
          /\ \A i \in 1..Len(calls) : i < Len(calls) =>
                 \/ calls[i].kind = "primary" /\ Answered(calls[i], 404)
                 \/ IsAttempt(calls[i]) /\ Answered(calls[i], 429))

C15_Witness ==
    /\ pc = "done"
    /\ sleeps = 1
    /\ Len(calls) = 3
    /\ Failed(calls[3])

\* C16: in every returned result that names a real model, the model id in
\* model_used is the model of the last provider call of the request.
C16_NamesLastModel ==
    (Returned /\ calls # <<>>) =>
        outcome.model_used \in
            {LastCall.model} \cup {LastCall.model \o s : s \in Suffixes}

\* C17: the attempt loop never runs out of iterations: an iteration gets a
\* text, returns, raises, or continues, and it continues only in the first
\* iteration after a 404 on gpt-4; parsing is reached only with the text
\* of a successful call assigned.
C17_LoopDecides ==
    /\ iter \in 0..(LOOP_ATTEMPTS - 1)
    /\ iter = 1 =>
          /\ calls # <<>>
          /\ calls[1].kind = "primary" /\ calls[1].model = "gpt-4"
          /\ Answered(calls[1], 404)
    /\ \A i \in 1..Len(calls) : calls[i].kind = "downgraded" => i = 2 /\ iter = 1
    /\ pc = "parse" =>
          /\ calls # <<>>
          /\ GotText(LastCall.answer)
          /\ ai_response # Unassigned
          /\ ai_response = LastCall.answer.content
    /\ (pc = "done" /\ calls # <<>> /\ GotText(LastCall.answer)) =>
          ai_response = LastCall.answer.content

C17_Witness == pc = "parse" /\ iter = 1 /\ Len(calls) = 2

\* C18: no provider failure leaves the handler as a 429 or 503 response:
\* a request whose last call raised an HTTP error or a transport error ends
\* with a fallback result, and the only error status of the handler is 500.
C18_OnlyInternalErrors ==
    /\ (pc = "done" /\ outcome.kind = "error" /\ outcome.origin = "handler") =>
          outcome.status = 500
    /\ (pc = "done" /\ calls # <<>>
           /\ (LastCall.answer.transport \/ LastCall.answer.status # 200)) =>
          /\ outcome.kind = "result"
          /\ outcome.success
          /\ outcome.model_used \in
                Tagged(" (rate-limit-fallback)") \cup Tagged(" (api-fallback)")
                    \cup Tagged(" (network-fallback)")

C18_Witness ==
    /\ Returned
    /\ Len(calls) = 1
    /\ Answered(calls[1], 500)

====
